---------------------------- MODULE Spec2Model ----------------------------
(***************************************************************************)
(* A model of the local knowledge base of src/shopify_agent.py: the query  *)
(* expander, the tokenizer, the document loader, the chunker, the index    *)
(* builder (_build) and the query engine (search).                         *)
(*                                                                         *)
(* Text is a sequence of characters; a character is a one-character string *)
(* for ASCII and the string "U+XXXX" for the code point XXXX otherwise.    *)
(* Floats are fixed point: an IDF weight is held in thousandths.           *)
(***************************************************************************)
EXTENDS Integers, Sequences, FiniteSets, TLC

VARIABLES
    root,         \* what rag_dir is on disk: "missing", "notdir" or "dir"
    files,        \* the files under rag_dir, in rglob order
    pc,           \* "new" before _build has run, "ready" after, "raised" if it raised
    chunks,       \* self.chunks: sequence of KBChunk records
    chunk_tfs,    \* self._chunk_tfs: sequence of Counters (term -> count)
    df,           \* self._df
    idf,          \* self._idf (thousandths)
    call,         \* per caller: the frame of its search() call
    doc,          \* the text handed to _chunk_text (chunker specification)
    packed,       \* what _chunk_text returned for doc
    query,        \* the string handed to _expand_query_for_kb
    expanded,     \* what _expand_query_for_kb returned for query
    plain,        \* the string handed to _tokenize (tokenizer specification)
    tokens,       \* what _tokenize returned for plain
    scan,         \* _chunk_text's locals chunks, current_heading, cur inside its loop
    todo          \* the lines the loop of _chunk_text has still to take

vars == <<root, files, pc, chunks, chunk_tfs, df, idf, call, doc, packed, query, expanded,
          plain, tokens, scan, todo>>

-----------------------------------------------------------------------------
(* Characters and the str methods the code uses                            *)

SP == " "
NL == "\n"
TAB == "\t"
FWCOLON == "U+FF1A"    \* the full-width colon of the Q/A regexes

\* what str.strip() removes and what \s matches, within the model's alphabet
Whitespace == {SP, NL, TAB}

UpperSeq == <<"A","B","C","D","E","F","G","H","I","J","K","L","M",
              "N","O","P","Q","R","S","T","U","V","W","X","Y","Z">>
LowerSeq == <<"a","b","c","d","e","f","g","h","i","j","k","l","m",
              "n","o","p","q","r","s","t","u","v","w","x","y","z">>
Digits == {"0","1","2","3","4","5","6","7","8","9"}

Range(s) == {s[i] : i \in DOMAIN s}

\* the class [a-zA-Z0-9_]
AsciiWord == Range(UpperSeq) \cup Range(LowerSeq) \cup Digits \cup {"_"}

\* the class [\u4e00-\u9fff]: the ideographs of the hint table's keys
Han == {"U+9000", "U+6B3E", "U+8D27", "U+6362", "U+653F", "U+7B56", "U+4FDD",
        "U+4FEE", "U+8D28", "U+8FD0", "U+8D39", "U+7269", "U+6D41", "U+914D",
        "U+9001", "U+53D1", "U+514D", "U+56FD", "U+9645", "U+793C", "U+54C1",
        "U+5361", "U+5956", "U+52B1", "U+79EF", "U+5206"}

KELVIN == "U+212A"     \* KELVIN SIGN, a letter outside ASCII whose lower case is "k"

LowerOf == [c \in Range(UpperSeq) \cup {KELVIN} |->
               IF c = KELVIN THEN "k"
               ELSE LowerSeq[CHOOSE i \in DOMAIN UpperSeq : UpperSeq[i] = c]]

\* str.lower() on one character
LowerChar(c) == IF c \in DOMAIN LowerOf THEN LowerOf[c] ELSE c

Lower(s) == [i \in DOMAIN s |-> LowerChar(s[i])]

\* s[a-1:b] of Python, 1-based and inclusive here; empty when a > b
Slice(s, a, b) == IF a > b THEN <<>> ELSE SubSeq(s, a, b)

RECURSIVE LStripFrom(_, _)
LStripFrom(s, i) ==
    IF i > Len(s) THEN i
    ELSE IF s[i] \in Whitespace THEN LStripFrom(s, i + 1) ELSE i

RECURSIVE RStripFrom(_, _)
RStripFrom(s, j) ==
    IF j < 1 THEN j
    ELSE IF s[j] \in Whitespace THEN RStripFrom(s, j - 1) ELSE j

\* str.strip()
Strip(s) == Slice(s, LStripFrom(s, 1), RStripFrom(s, Len(s)))

\* sep.join(parts)
RECURSIVE Join(_, _)
Join(sep, parts) ==
    IF parts = <<>> THEN <<>>
    ELSE IF Len(parts) = 1 THEN parts[1]
    ELSE parts[1] \o sep \o Join(sep, Tail(parts))

\* `sub in s` for strings
Contains(s, sub) ==
    \E i \in 1..(Len(s) - Len(sub) + 1) : SubSeq(s, i, i + Len(sub) - 1) = sub

\* str.splitlines(): cut at every line break, no empty last line
RECURSIVE SplitLinesFrom(_, _, _)
SplitLinesFrom(s, i, cur) ==
    IF i > Len(s) THEN (IF cur = <<>> THEN <<>> ELSE <<cur>>)
    ELSE IF s[i] = NL THEN <<cur>> \o SplitLinesFrom(s, i + 1, <<>>)
    ELSE SplitLinesFrom(s, i + 1, Append(cur, s[i]))

SplitLines(s) == SplitLinesFrom(s, 1, <<>>)

\* the end of the run of line breaks that starts at i
RECURSIVE NLRunEnd(_, _)
NLRunEnd(s, i) ==
    IF i <= Len(s) /\ s[i] = NL THEN NLRunEnd(s, i + 1) ELSE i

\* re.split(r"\n{2,}", s)
RECURSIVE SplitParasFrom(_, _, _)
SplitParasFrom(s, i, cur) ==
    IF i > Len(s) THEN <<cur>>
    ELSE IF s[i] = NL /\ NLRunEnd(s, i) - i >= 2
         THEN <<cur>> \o SplitParasFrom(s, NLRunEnd(s, i), <<>>)
    ELSE SplitParasFrom(s, i + 1, Append(cur, s[i]))

SplitParas(s) == SplitParasFrom(s, 1, <<>>)

-----------------------------------------------------------------------------
(* _tokenize                                                               *)

CharClass(c) == IF c \in AsciiWord THEN "word" ELSE IF c \in Han THEN "han" ELSE "sep"

\* FindAllFrom with the class of ideographs matched one character at a time
RECURSIVE FindAllSingleHan(_, _, _)
FindAllSingleHan(s, i, cur) ==
    IF i > Len(s) THEN (IF cur = <<>> THEN <<>> ELSE <<cur>>)
    ELSE LET k == CharClass(s[i]) IN
         IF k = "sep"
         THEN (IF cur = <<>> THEN <<>> ELSE <<cur>>) \o FindAllSingleHan(s, i + 1, <<>>)
         ELSE IF cur # <<>> /\ (CharClass(cur[1]) # k \/ k = "han")
         THEN <<cur>> \o FindAllSingleHan(s, i + 1, <<s[i]>>)
         ELSE FindAllSingleHan(s, i + 1, Append(cur, s[i]))

\* re.findall(r"[a-zA-Z0-9_]+|[\u4e00-\u9fff]+", s): the maximal runs of one class
RECURSIVE FindAllFrom(_, _, _)
FindAllFrom(s, i, cur) ==
    IF i > Len(s) THEN (IF cur = <<>> THEN <<>> ELSE <<cur>>)
    ELSE LET k == CharClass(s[i]) IN
         IF k = "sep"
         THEN (IF cur = <<>> THEN <<>> ELSE <<cur>>) \o FindAllFrom(s, i + 1, <<>>)
         ELSE IF cur # <<>> /\ CharClass(cur[1]) # k
         THEN <<cur>> \o FindAllFrom(s, i + 1, <<s[i]>>)
         ELSE FindAllFrom(s, i + 1, Append(cur, s[i]))

_tokenize(text) == IF text = <<>> THEN <<>> ELSE FindAllFrom(Lower(text), 1, <<>>)

\* collections.Counter(seq)
Counter(seq) ==
    [t \in Range(seq) |-> Cardinality({i \in DOMAIN seq : seq[i] = t})]

\* the keys of a dict built from seq, in insertion order
RECURSIVE Distinct(_)
Distinct(seq) ==
    IF seq = <<>> THEN <<>>
    ELSE LET front == Distinct(SubSeq(seq, 1, Len(seq) - 1))
             last == seq[Len(seq)]
         IN  IF last \in Range(front) THEN front ELSE Append(front, last)

-----------------------------------------------------------------------------
(* _expand_query_for_kb                                                    *)

\* ZH_EN_KEYWORDS, in insertion order: <<key, value>>
ZH_EN_KEYWORDS == <<
    << <<"U+9000","U+6B3E">>, <<"r","e","f","u","n","d">> >>,
    << <<"U+9000","U+8D27">>, <<"r","e","t","u","r","n">> >>,
    << <<"U+9000","U+6362">>, <<"r","e","t","u","r","n"," ","e","x","c","h","a","n","g","e">> >>,
    << <<"U+6362","U+8D27">>, <<"e","x","c","h","a","n","g","e">> >>,
    << <<"U+653F","U+7B56">>, <<"p","o","l","i","c","y">> >>,
    << <<"U+4FDD","U+4FEE">>, <<"w","a","r","r","a","n","t","y">> >>,
    << <<"U+8D28","U+4FDD">>, <<"w","a","r","r","a","n","t","y">> >>,
    << <<"U+8FD0","U+8D39">>, <<"s","h","i","p","p","i","n","g">> >>,
    << <<"U+7269","U+6D41">>, <<"s","h","i","p","p","i","n","g">> >>,
    << <<"U+914D","U+9001">>, <<"s","h","i","p","p","i","n","g">> >>,
    << <<"U+53D1","U+8D27">>, <<"s","h","i","p">> >>,
    << <<"U+514D","U+8FD0","U+8D39">>, <<"f","r","e","e"," ","s","h","i","p","p","i","n","g">> >>,
    << <<"U+56FD","U+9645">>, <<"i","n","t","e","r","n","a","t","i","o","n","a","l">> >>,
    << <<"U+793C","U+54C1","U+5361">>, <<"g","i","f","t"," ","c","a","r","d">> >>,
    << <<"U+5956","U+52B1">>, <<"r","e","w","a","r","d","s">> >>,
    << <<"U+79EF","U+5206">>, <<"p","o","i","n","t","s"," ","r","e","w","a","r","d","s">> >>,
    << <<"R","M","A">>, <<"R","M","A">> >>
>>

\* ExtraFrom leaving the loop at the first key found
RECURSIVE ExtraFirstOnly(_, _)
ExtraFirstOnly(q, i) ==
    IF i > Len(ZH_EN_KEYWORDS) THEN <<>>
    ELSE IF Contains(q, ZH_EN_KEYWORDS[i][1]) THEN <<ZH_EN_KEYWORDS[i][2]>>
    ELSE ExtraFirstOnly(q, i + 1)

\* the loop of lines 61-64: the values of the keys found in q, in table order
RECURSIVE ExtraFrom(_, _)
ExtraFrom(q, i) ==
    IF i > Len(ZH_EN_KEYWORDS) THEN <<>>
    ELSE (IF Contains(q, ZH_EN_KEYWORDS[i][1]) THEN <<ZH_EN_KEYWORDS[i][2]>> ELSE <<>>)
         \o ExtraFrom(q, i + 1)

_expand_query_for_kb(qry) ==
    LET q == Strip(qry) IN
    IF q = <<>> THEN q
    ELSE IF \E i \in DOMAIN q : q[i] \in Han
         THEN LET extra == ExtraFrom(q, 1) IN
              IF extra # <<>> THEN q \o <<SP>> \o Join(<<SP>>, extra) ELSE q
         ELSE q

-----------------------------------------------------------------------------
(* LocalKnowledgeBase._chunk_text                                          *)

chunk_size == 4
chunk_overlap == 2

Colons == {":", FWCOLON}

Str_question == <<"q","u","e","s","t","i","o","n">>
Str_answer == <<"a","n","s","w","e","r">>

\* MarkerAt taking the whole word (Question, Answer) for the letter as well
MarkerAtWord(s, i, letter) ==
    LET word == IF letter = "q" THEN Str_question ELSE Str_answer
        j == IF /\ i + Len(word) - 1 <= Len(s)
                /\ Lower(Slice(s, i, i + Len(word) - 1)) = word
             THEN i + Len(word) ELSE i + 1
    IN  /\ i <= Len(s)
        /\ LowerChar(s[i]) = letter
        /\ LET k == LStripFrom(s, j) IN k <= Len(s) /\ s[k] \in Colons

\* the pattern  X\s*[:U+FF1A]  (case-insensitive X) matched at position i of s
MarkerAt(s, i, letter) ==
    /\ i <= Len(s)
    /\ LowerChar(s[i]) = letter
    /\ LET k == LStripFrom(s, i + 1) IN k <= Len(s) /\ s[k] \in Colons

\* re.search(r"(?mi)^\s*Q\s*[:U+FF1A]", text)
LooksLikeFAQ(text) ==
    \E i \in DOMAIN text :
        /\ (IF i = 1 THEN TRUE ELSE text[i - 1] = NL)
        /\ MarkerAt(text, LStripFrom(text, i), "q")

\* chunks.append("\n".join(cur).strip())
FlushCur(cs, cur) == Append(cs, Strip(Join(<<NL>>, cur)))

\* QAStep closing a chunk at every question line, also when none is open
QAStepNoGuard(st, raw) ==
    LET s == Strip(raw) IN
    IF s = <<>> THEN st
    ELSE IF MarkerAt(s, 1, "q")
    THEN [st EXCEPT
            !.chunks = FlushCur(st.chunks, st.cur),
            !.cur = (IF st.current_heading # <<>> THEN <<st.current_heading>> ELSE <<>>)
                    \o <<s>>]
    ELSE IF MarkerAt(s, 1, "a")
    THEN [st EXCEPT
            !.cur = (IF st.cur = <<>> /\ st.current_heading # <<>>
                     THEN <<st.current_heading>> ELSE st.cur) \o <<s>>]
    ELSE IF st.cur # <<>>
    THEN [st EXCEPT !.cur = Append(st.cur, s)]
    ELSE [st EXCEPT !.current_heading = s]

\* QAStep taking every line that is no question and no answer as the heading
\* of the chunks to come, also while a chunk is open
QAStepRetitle(st, raw) ==
    LET s == Strip(raw) IN
    IF s = <<>> THEN st
    ELSE IF MarkerAt(s, 1, "q")
    THEN [st EXCEPT
            !.chunks = IF st.cur # <<>> THEN FlushCur(st.chunks, st.cur) ELSE st.chunks,
            !.cur = (IF st.current_heading # <<>> THEN <<st.current_heading>> ELSE <<>>)
                    \o <<s>>]
    ELSE IF MarkerAt(s, 1, "a")
    THEN [st EXCEPT
            !.cur = (IF st.cur = <<>> /\ st.current_heading # <<>>
                     THEN <<st.current_heading>> ELSE st.cur) \o <<s>>]
    ELSE [st EXCEPT
            !.cur = IF st.cur # <<>> THEN Append(st.cur, s) ELSE st.cur,
            !.current_heading = s]

\* QAStep forgetting the heading once a question line has taken it
QAStepHeadingOnce(st, raw) ==
    LET s == Strip(raw) IN
    IF s = <<>> THEN st
    ELSE IF MarkerAt(s, 1, "q")
    THEN [st EXCEPT
            !.chunks = IF st.cur # <<>> THEN FlushCur(st.chunks, st.cur) ELSE st.chunks,
            !.cur = (IF st.current_heading # <<>> THEN <<st.current_heading>> ELSE <<>>)
                    \o <<s>>,
            !.current_heading = <<>>]
    ELSE IF MarkerAt(s, 1, "a")
    THEN [st EXCEPT
            !.cur = (IF st.cur = <<>> /\ st.current_heading # <<>>
                     THEN <<st.current_heading>> ELSE st.cur) \o <<s>>]
    ELSE IF st.cur # <<>>
    THEN [st EXCEPT !.cur = Append(st.cur, s)]
    ELSE [st EXCEPT !.current_heading = s]

\* one pass of the loop of lines 168-195 over the line raw
QAStep(st, raw) ==
    LET s == Strip(raw) IN
    IF s = <<>> THEN st
    ELSE IF MarkerAt(s, 1, "q")
    THEN [st EXCEPT
            !.chunks = IF st.cur # <<>> THEN FlushCur(st.chunks, st.cur) ELSE st.chunks,
            !.cur = (IF st.current_heading # <<>> THEN <<st.current_heading>> ELSE <<>>)
                    \o <<s>>]
    ELSE IF MarkerAt(s, 1, "a")
    THEN [st EXCEPT
            !.cur = (IF st.cur = <<>> /\ st.current_heading # <<>>
                     THEN <<st.current_heading>> ELSE st.cur) \o <<s>>]
    ELSE IF st.cur # <<>>
    THEN [st EXCEPT !.cur = Append(st.cur, s)]
    ELSE [st EXCEPT !.current_heading = s]

\* lines 163-165: the locals before the loop
NoScan == [chunks |-> <<>>, current_heading |-> <<>>, cur |-> <<>>]

RECURSIVE QAScan(_, _)
QAScan(st, lines) ==
    IF lines = <<>> THEN st ELSE QAScan(QAStep(st, Head(lines)), Tail(lines))

\* lines 161-198: the chunks of the Q/A-aware pass over the stripped text
QAChunks(text) ==
    LET st == QAScan(NoScan, SplitLines(text))
    IN  IF st.cur # <<>> THEN FlushCur(st.chunks, st.cur) ELSE st.chunks

\* line 205: the stripped, non-empty paragraphs
RECURSIVE StripKeep(_)
StripKeep(ps) ==
    IF ps = <<>> THEN <<>>
    ELSE (IF Strip(Head(ps)) # <<>> THEN <<Strip(Head(ps))>> ELSE <<>>)
         \o StripKeep(Tail(ps))

Parts(text) == StripKeep(SplitParas(text))

\* buf[-chunk_overlap:]
Overlap(buf) == Slice(buf, Len(buf) - chunk_overlap + 1, Len(buf))

\* PackStep starting every new buffer from the paragraph alone
PackStepNoOverlap(st, part) ==
    IF st.buf = <<>> THEN [st EXCEPT !.buf = part]
    ELSE IF Len(st.buf) + 2 + Len(part) <= chunk_size
    THEN [st EXCEPT !.buf = st.buf \o <<NL, NL>> \o part]
    ELSE [packed |-> Append(st.packed, st.buf), buf |-> part]

\* one pass of the loop of lines 208-220 over the paragraph part
PackStep(st, part) ==
    IF st.buf = <<>> THEN [st EXCEPT !.buf = part]
    ELSE IF Len(st.buf) + 2 + Len(part) <= chunk_size
    THEN [st EXCEPT !.buf = st.buf \o <<NL, NL>> \o part]
    ELSE [packed |-> Append(st.packed, st.buf),
          buf |-> IF chunk_overlap > 0 /\ Len(st.buf) > chunk_overlap
                  THEN Overlap(st.buf) \o <<NL, NL>> \o part
                  ELSE part]

RECURSIVE PackScan(_, _)
PackScan(st, parts) ==
    IF parts = <<>> THEN st ELSE PackScan(PackStep(st, Head(parts)), Tail(parts))

\* lines 205-223
Pack(text) ==
    LET st == PackScan([packed |-> <<>>, buf |-> <<>>], Parts(text))
    IN  IF st.buf # <<>> THEN Append(st.packed, st.buf) ELSE st.packed

_chunk_text(txt) ==
    LET text == Strip(txt) IN
    IF text = <<>> THEN <<>>
    ELSE IF LooksLikeFAQ(text) /\ QAChunks(text) # <<>> THEN QAChunks(text)
    ELSE Pack(text)

-----------------------------------------------------------------------------
(* The document loader                                                     *)

Str_txt == <<".","t","x","t">>
Str_md == <<".","m","d">>
Str_markdown == <<".","m","a","r","k","d","o","w","n">>
Str_docx == <<".","d","o","c","x">>

\* line 119
exts == {Str_txt, Str_md, Str_markdown, Str_docx}

\* str(e) of the exception caught: some message
ErrMsg == <<"e","r","r">>

\* a call's outcome: it returned text, or it raised
Returned(text) == [raised |-> FALSE, text |-> text]
Raised == [raised |-> TRUE, text |-> <<>>]

\* lines 99-104: f.paras is the document's w:p elements, each the texts of its w:t
RECURSIVE DocxParagraphs(_)
DocxParagraphs(ps) ==
    IF ps = <<>> THEN <<>>
    ELSE LET texts == SelectSeq(Head(ps), LAMBDA t : t # <<>>)
             para == Strip(Join(<<>>, texts))
         IN  (IF texts # <<>> /\ para # <<>> THEN <<para>> ELSE <<>>)
             \o DocxParagraphs(Tail(ps))

_extract_text_from_docx(f) ==
    IF f.outcome = "zip_error"
    THEN Returned(<<"[","D","O","C","X"," ","p","a","r","s","e"," ",
                    "f","a","i","l","e","d",":"," ">> \o f.name \o <<"]"," ">> \o ErrMsg)
    ELSE IF f.outcome = "xml_error"
    THEN Returned(<<"[","D","O","C","X"," ","X","M","L"," ","p","a","r","s","e"," ",
                    "f","a","i","l","e","d",":"," ">> \o f.name \o <<"]"," ">> \o ErrMsg)
    ELSE Returned(Join(<<NL>>, DocxParagraphs(f.paras)))

\* _read_text_file without its try/except
_read_text_fileUncaught(f) ==
    IF f.outcome = "ok" THEN Returned(f.body) ELSE Raised

_read_text_file(f) ==
    IF f.outcome = "ok" THEN Returned(f.body)
    ELSE Returned(<<"[","R","e","a","d"," ","f","a","i","l","e","d",":"," ">>
                  \o f.name \o <<"]"," ">> \o ErrMsg)

\* lines 116-120: the files of rag_dir that are indexed, in rglob order
_iter_rag_files(rt, fs) ==
    IF rt # "dir" THEN <<>>
    ELSE SelectSeq(fs, LAMBDA f : Lower(f.ext) \in exts)

_load_doc(f) ==
    IF Lower(f.ext) = Str_docx THEN _extract_text_from_docx(f) ELSE _read_text_file(f)

-----------------------------------------------------------------------------
(* LocalKnowledgeBase._build                                               *)

Max(a, b) == IF a >= b THEN a ELSE b
Min(a, b) == IF a <= b THEN a ELSE b

\* 1000 * ln(k) for k = 1..16, rounded: math.log in thousandths
LN1000 == <<0, 693, 1099, 1386, 1609, 1792, 1946, 2079,
            2197, 2303, 2398, 2485, 2565, 2639, 2708, 2773>>

\* math.log((n + 1) / (df_t + 1)) + 1.0, in thousandths
IdfWeight(n, df_t) == LN1000[n + 1] - LN1000[df_t + 1] + 1000

\* line 231: the KBChunk records of one file's chunk texts
KBChunksOf(name, texts) ==
    [i \in DOMAIN texts |-> [source |-> name, chunk_id |-> i - 1, text |-> texts[i]]]

\* lines 227-231: the chunks of the files in order, or the exception of a load
RECURSIVE AllChunks(_)
AllChunks(fl) ==
    IF fl = <<>> THEN [raised |-> FALSE, chunks |-> <<>>]
    ELSE LET raw == _load_doc(Head(fl))
             rest == AllChunks(Tail(fl))
         IN  IF raw.raised \/ rest.raised THEN [raised |-> TRUE, chunks |-> <<>>]
             ELSE [raised |-> FALSE,
                   chunks |-> KBChunksOf(Head(fl).name, _chunk_text(raw.text))
                              \o rest.chunks]

\* ChunkTfs leaving out the chunks that have no token
ChunkTfsSkipEmpty(cs) ==
    LET tfs == [i \in DOMAIN cs |-> Counter(_tokenize(cs[i].text))]
    IN  SelectSeq(tfs, LAMBDA tf : DOMAIN tf # {})

\* line 234
ChunkTfs(cs) == [i \in DOMAIN cs |-> Counter(_tokenize(cs[i].text))]

Terms(tfs) == UNION {DOMAIN tfs[i] : i \in DOMAIN tfs}

RECURSIVE SumCounts(_, _, _)
SumCounts(tfs, term, i) ==
    IF i > Len(tfs) THEN 0
    ELSE (IF term \in DOMAIN tfs[i] THEN tfs[i][term] ELSE 0) + SumCounts(tfs, term, i + 1)

\* DocFreq adding a term's count in the chunk, df[term] += tf[term]
DocFreqByOccurrence(tfs) == [t \in Terms(tfs) |-> SumCounts(tfs, t, 1)]

\* lines 237-241: df[term] += 1 once for every chunk whose Counter has the term
DocFreq(tfs) ==
    [t \in Terms(tfs) |-> Cardinality({i \in DOMAIN tfs : t \in DOMAIN tfs[i]})]

\* lines 243-244
IdfTable(dfm, nchunks) ==
    LET n == Max(nchunks, 1) IN [t \in DOMAIN dfm |-> IdfWeight(n, dfm[t])]

\* the fields of a LocalKnowledgeBase after __init__'s lines 143-146
EmptyKB == [chunks |-> <<>>, chunk_tfs |-> <<>>, df |-> <<>>, idf |-> <<>>]

\* _build over the directory rt holding the files fs
_build(rt, fs) ==
    LET all == AllChunks(_iter_rag_files(rt, fs)) IN
    IF all.raised THEN [raised |-> TRUE, kb |-> EmptyKB]
    ELSE LET tfs == ChunkTfs(all.chunks)
             dfm == DocFreq(tfs)
         IN  [raised |-> FALSE,
              kb |-> [chunks |-> all.chunks, chunk_tfs |-> tfs, df |-> dfm,
                      idf |-> IdfTable(dfm, Len(all.chunks))]]

-----------------------------------------------------------------------------
(* LocalKnowledgeBase.search                                               *)

\* self._idf.get(t, 0.0)
IdfGet(idfm, t) == IF t \in DOMAIN idfm THEN idfm[t] ELSE 0

\* lines 256-261: the score of the chunk with Counter tf, in millionths;
\* keys is q_weights' keys in insertion order
RECURSIVE ChunkScore(_, _, _, _)
ChunkScore(keys, q_tf, tf, idfm) ==
    IF keys = <<>> THEN 0
    ELSE LET t == Head(keys)
             qw == q_tf[t] * IdfGet(idfm, t)
         IN  (IF qw > 0 /\ t \in DOMAIN tf THEN qw * (tf[t] * IdfGet(idfm, t)) ELSE 0)
             + ChunkScore(Tail(keys), q_tf, tf, idfm)

\* ScoredFrom keeping the chunks that score 0 as well
RECURSIVE ScoredFromKeepZero(_, _, _, _, _)
ScoredFromKeepZero(keys, q_tf, tfs, idfm, i) ==
    IF i > Len(tfs) THEN <<>>
    ELSE LET score == ChunkScore(keys, q_tf, tfs[i], idfm) IN
         (IF score >= 0 THEN << <<i, score>> >> ELSE <<>>)
         \o ScoredFromKeepZero(keys, q_tf, tfs, idfm, i + 1)

\* lines 254-263: (idx, score) of the chunks that score above 0, in index order
RECURSIVE ScoredFrom(_, _, _, _, _)
ScoredFrom(keys, q_tf, tfs, idfm, i) ==
    IF i > Len(tfs) THEN <<>>
    ELSE LET score == ChunkScore(keys, q_tf, tfs[i], idfm) IN
         (IF score > 0 THEN << <<i, score>> >> ELSE <<>>)
         \o ScoredFrom(keys, q_tf, tfs, idfm, i + 1)

\* where a stable descending sort puts x in the sorted sequence s
RECURSIVE InsertDesc(_, _)
InsertDesc(s, x) ==
    IF s = <<>> THEN <<x>>
    ELSE IF Head(s)[2] >= x[2] THEN <<Head(s)>> \o InsertDesc(Tail(s), x)
    ELSE <<x>> \o s

\* SortDesc without the sort
SortUnsorted(scored) == scored

\* line 265: scored.sort(key=lambda x: x[1], reverse=True), a stable sort
RECURSIVE SortDesc(_)
SortDesc(scored) ==
    IF scored = <<>> THEN <<>>
    ELSE InsertDesc(SortDesc(SubSeq(scored, 1, Len(scored) - 1)), scored[Len(scored)])

\* TopSlice without the floor of 1: scored[: top_k] for top_k >= 0, nothing below
TopSliceRaw(scored, top_k) == Slice(scored, 1, Min(top_k, Len(scored)))

\* line 267: scored[: max(1, top_k)]
TopSlice(scored, top_k) == Slice(scored, 1, Min(Max(1, top_k), Len(scored)))

\* search looking weights up with self._idf.setdefault(t, 0.0): every query term
\* unknown to the index gets an entry
searchSetDefault(self, qry, top_k) ==
    LET q_terms == _tokenize(qry) IN
    IF q_terms = <<>> \/ self.chunks = <<>> THEN [self |-> self, ret |-> <<>>]
    ELSE LET q_tf == Counter(q_terms)
             scored == ScoredFrom(Distinct(q_terms), q_tf, self.chunk_tfs, self.idf, 1)
             top == TopSlice(SortDesc(scored), top_k)
             seen == [t \in DOMAIN self.idf \cup Range(q_terms) |-> IdfGet(self.idf, t)]
         IN  [self |-> [self EXCEPT !.idf = seen],
              ret |-> [i \in DOMAIN top |->
                          [chunk |-> self.chunks[top[i][1]], score |-> top[i][2]]]]

\* search on the object self: the object afterwards (no line of 246-269 assigns
\* to a field or changes a container of self) and the list returned
search(self, qry, top_k) ==
    LET q_terms == _tokenize(qry) IN
    IF q_terms = <<>> \/ self.chunks = <<>> THEN [self |-> self, ret |-> <<>>]
    ELSE LET q_tf == Counter(q_terms)
             scored == ScoredFrom(Distinct(q_terms), q_tf, self.chunk_tfs, self.idf, 1)
             top == TopSlice(SortDesc(scored), top_k)
         IN  [self |-> self,
              ret |-> [i \in DOMAIN top |->
                          [chunk |-> self.chunks[top[i][1]], score |-> top[i][2]]]]

-----------------------------------------------------------------------------
(* The inputs: corpora, queries, documents                                 *)

MaxFiles == 2       \* files under rag_dir when the index is built
MaxSearchFiles == 1 \* files under rag_dir when the index is searched
MaxTopK == 2        \* largest top_k passed to search
MaxLines == 4       \* lines of a document handed to _chunk_text
MaxQueryLen == 4    \* characters of a query handed to _expand_query_for_kb
MaxTextLen == 4     \* characters of a text handed to _tokenize
MaxQALines == 5     \* lines of a Q/A document handed to _chunk_text
MaxParas == 3       \* paragraphs of a plain document handed to _chunk_text
MaxScanLines == 4   \* lines of a Q/A document whose loop is followed pass by pass

Callers == {"c1", "c2"}

TxtFile(ext, body) == [ext |-> ext, outcome |-> "ok", body |-> body, paras |-> <<>>]
BadFile(ext, outcome) == [ext |-> ext, outcome |-> outcome, body |-> <<>>, paras |-> <<>>]

\* what a file under rag_dir can be: its suffix, whether reading it works, its content
FileKinds == {
    TxtFile(Str_txt, <<"r"," ","s",NL,NL,"r"," ","r"," ","r"," ","r"," ","r">>),
    TxtFile(Str_txt, <<"!","!",NL,NL,"r"," ","s",NL,NL,"t"," ","t">>),
    TxtFile(<<".","M","D">>, <<"H",NL,"Q",":","r",NL,"A",":","s"," ","s",NL,NL,"q",FWCOLON,"t">>),
    TxtFile(<<".","p","d","f">>, <<"r">>),
    BadFile(Str_txt, "read_error"),
    BadFile(Str_docx, "zip_error"),
    BadFile(Str_docx, "xml_error"),
    [ext |-> Str_docx, outcome |-> "ok", body |-> <<>>,
     paras |-> << <<<<"R">>, <<" ","s"," ">>>>, <<<<" ">>>>, <<<<>>>>, <<>>, <<<<"t">>>> >>]
}

Stems == <<"a", "b", "c", "d">>

\* the file of kind k found in position i of the directory walk
FileAt(k, i) ==
    [name |-> <<Stems[i]>> \o k.ext, ext |-> k.ext, outcome |-> k.outcome,
     body |-> k.body, paras |-> k.paras]

\* the directories of at most max files
Corpora(max) ==
    UNION {{[i \in 1..n |-> FileAt(ks[i], i)] : ks \in [1..n -> FileKinds]} : n \in 0..max}

SearchQueries == {
    <<"r">>,
    <<"S"," ","r",","," ","s"," ","z">>,
    <<"?"," ">>
}

TopKs == (0 - 1)..MaxTopK

Lines == {
    <<>>,
    <<"a","b","c","d","e">>,
    <<"Q",":","a","b">>,
    <<"A",":","a","b">>,
    <<"q",SP,FWCOLON>>,
    <<SP,"a","b">>,
    <<"Q">>,
    <<":">>
}

Docs == UNION {{Join(<<NL>>, ls) : ls \in [1..n -> Lines]} : n \in 0..MaxLines}

\* lines of a document that spells its markers out, beside a heading, an empty
\* line and a line with the one-letter marker
WordLines == {
    <<>>,
    <<"Q","u","e","s","t","i","o","n",":","a">>,
    <<"A","n","s","w","e","r",":","b">>,
    <<"q","u","e","s","t","i","o","n",FWCOLON,"c">>,
    <<"H">>,
    <<"Q",":","a">>
}

\* lines of a Q/A document: an empty line, a title, an indented line, two
\* question lines and an answer line
QALines == {
    <<>>,
    <<"H">>,
    <<SP,"T">>,
    <<"Q",":","a">>,
    <<"q",SP,FWCOLON,"c">>,
    <<"A",":","b">>
}

\* the documents of at most n lines, each line one of the set lineset
DocsOf(lineset, n) == UNION {{Join(<<NL>>, ls) : ls \in [1..k -> lineset]} : k \in 0..n}

\* paragraphs of a plain document, one of them indented, and what stands
\* between two of them: an empty line or two
Paras == {<<"a">>, <<"b","c">>, <<"d","e","f">>, <<"g","h","i","j","k">>, <<SP,"e">>}

Seps == {<<NL,NL>>, <<NL,NL,NL>>}

\* the paragraphs ps with ss[i] between ps[i] and ps[i + 1]
RECURSIVE Weave(_, _)
Weave(ps, ss) ==
    IF Len(ps) = 1 THEN ps[1]
    ELSE ps[1] \o ss[1] \o Weave(Tail(ps), Tail(ss))

\* the documents of at most max paragraphs
ParaDocs(max) ==
    {<<>>} \cup
    UNION {{Weave(ps, ss) : ps \in [1..n -> Paras], ss \in [1..(n - 1) -> Seps]} :
           n \in 1..max}


QueryChars == {"U+9000", "U+6B3E", "U+653F", "U+7B56", SP, "R", "M", "A"}

ExpandQueries == UNION {[1..n -> QueryChars] : n \in 0..MaxQueryLen}

\* letters of both cases, a digit, the underscore, two ideographs, a letter and an
\* ideograph outside the two classes (U+3400 is of CJK Extension A), punctuation
\* and white space
TokenChars == {"R", "d", "1", "_", "U+9000", "U+6B3E", KELVIN, "U+3400", "#", SP}

\* the texts of at most max characters
TokenizeTexts(max) == UNION {[1..n -> TokenChars] : n \in 0..max}

-----------------------------------------------------------------------------
(* The state machine                                                       *)

NoCall == [done |-> FALSE, query |-> <<>>, top_k |-> 0, result |-> <<>>]

Self == [chunks |-> chunks, chunk_tfs |-> chunk_tfs, df |-> df, idf |-> idf]

Idle ==
    /\ call = [c \in Callers |-> NoCall]
    /\ chunks = EmptyKB.chunks /\ chunk_tfs = EmptyKB.chunk_tfs
    /\ df = EmptyKB.df /\ idf = EmptyKB.idf

\* LocalKnowledgeBase(rag_dir) up to line 146, over some directory of at most max files
New(max) ==
    /\ root \in {"missing", "notdir", "dir"}
    /\ files \in Corpora(max)
    /\ (root # "dir" => files = <<>>)
    /\ pc = "new"
    /\ Idle
    /\ doc = <<>> /\ packed = <<>> /\ query = <<>> /\ expanded = <<>>
    /\ plain = <<>> /\ tokens = <<>>
    /\ scan = NoScan /\ todo = <<>>

Init == New(MaxSearchFiles)

\* line 148: self._build()
Build ==
    /\ pc = "new"
    /\ LET b == _build(root, files) IN
       IF b.raised
       THEN pc' = "raised" /\ UNCHANGED <<chunks, chunk_tfs, df, idf>>
       ELSE /\ pc' = "ready"
            /\ chunks' = b.kb.chunks
            /\ chunk_tfs' = b.kb.chunk_tfs
            /\ df' = b.kb.df
            /\ idf' = b.kb.idf
    /\ UNCHANGED <<root, files, call, doc, packed, query, expanded, plain, tokens, scan, todo>>

\* caller c, one invocation of search_knowledge, runs
\* knowledge_base.search(query=q, top_k=k); search has no await, so the call is
\* one step, and the calls of the callers come in any order
Search(c, q, k) ==
    /\ pc = "ready"
    /\ ~call[c].done
    /\ LET r == search(Self, q, k) IN
       /\ call' = [call EXCEPT ![c] = [done |-> TRUE, query |-> q, top_k |-> k,
                                        result |-> r.ret]]
       /\ chunks' = r.self.chunks
       /\ chunk_tfs' = r.self.chunk_tfs
       /\ df' = r.self.df
       /\ idf' = r.self.idf
    /\ UNCHANGED <<root, files, pc, doc, packed, query, expanded, plain, tokens, scan, todo>>

Next ==
    \/ Build
    \/ \E c \in Callers, q \in SearchQueries, k \in TopKs : Search(c, q, k)

Spec == Init /\ [][Next]_vars

\* the build alone, over larger directories
InitBuild == New(MaxFiles)

NextBuild == Build

SpecBuild == InitBuild /\ [][NextBuild]_vars

\* the chunker alone: _chunk_text on some document
InitChunk ==
    /\ doc \in Docs
    /\ pc = "text"
    /\ packed = <<>>
    /\ root = "missing" /\ files = <<>> /\ Idle
    /\ query = <<>> /\ expanded = <<>>
    /\ plain = <<>> /\ tokens = <<>>
    /\ scan = NoScan /\ todo = <<>>

ChunkText ==
    /\ pc = "text"
    /\ packed' = _chunk_text(doc)
    /\ pc' = "chunked"
    /\ UNCHANGED <<root, files, chunks, chunk_tfs, df, idf, call, doc, query, expanded,
                   plain, tokens, scan, todo>>

NextChunk == ChunkText

SpecChunk == InitChunk /\ [][NextChunk]_vars

\* _chunk_text on a document whose markers are spelt out
InitChunkWords ==
    /\ doc \in DocsOf(WordLines, MaxLines)
    /\ pc = "text"
    /\ packed = <<>>
    /\ root = "missing" /\ files = <<>> /\ Idle
    /\ query = <<>> /\ expanded = <<>>
    /\ plain = <<>> /\ tokens = <<>>
    /\ scan = NoScan /\ todo = <<>>

SpecChunkWords == InitChunkWords /\ [][NextChunk]_vars

\* _chunk_text on a Q/A document
InitChunkQA ==
    /\ doc \in DocsOf(QALines, MaxQALines)
    /\ pc = "text"
    /\ packed = <<>>
    /\ root = "missing" /\ files = <<>> /\ Idle
    /\ query = <<>> /\ expanded = <<>>
    /\ plain = <<>> /\ tokens = <<>>
    /\ scan = NoScan /\ todo = <<>>

SpecChunkQA == InitChunkQA /\ [][NextChunk]_vars

\* _chunk_text on a plain document of some paragraphs
InitPack ==
    /\ doc \in ParaDocs(MaxParas)
    /\ pc = "text"
    /\ packed = <<>>
    /\ root = "missing" /\ files = <<>> /\ Idle
    /\ query = <<>> /\ expanded = <<>>
    /\ plain = <<>> /\ tokens = <<>>
    /\ scan = NoScan /\ todo = <<>>

SpecPack == InitPack /\ [][NextChunk]_vars

\* _chunk_text on a Q/A document, one pass of its loop at a time
InitScan ==
    /\ doc \in DocsOf(QALines, MaxScanLines)
    /\ pc = "text"
    /\ packed = <<>>
    /\ root = "missing" /\ files = <<>> /\ Idle
    /\ query = <<>> /\ expanded = <<>>
    /\ plain = <<>> /\ tokens = <<>>
    /\ scan = NoScan /\ todo = <<>>

\* lines 157-165: into the loop if the text looks like a FAQ
ScanBegin ==
    /\ pc = "text"
    /\ Strip(doc) # <<>>
    /\ LooksLikeFAQ(Strip(doc))
    /\ todo' = SplitLines(Strip(doc))
    /\ scan' = NoScan
    /\ pc' = "scan"
    /\ UNCHANGED <<root, files, chunks, chunk_tfs, df, idf, call, doc, packed, query,
                   expanded, plain, tokens>>

\* lines 167-195: one pass of the loop
ScanLine ==
    /\ pc = "scan"
    /\ todo # <<>>
    /\ scan' = QAStep(scan, Head(todo))
    /\ todo' = Tail(todo)
    /\ UNCHANGED <<root, files, pc, chunks, chunk_tfs, df, idf, call, doc, packed, query,
                   expanded, plain, tokens>>

\* lines 197-223: after the loop, the chunks if there are any, else the packing
ScanEnd ==
    /\ pc = "scan"
    /\ todo = <<>>
    /\ LET cs == IF scan.cur # <<>> THEN FlushCur(scan.chunks, scan.cur) ELSE scan.chunks
       IN  packed' = IF cs # <<>> THEN cs ELSE Pack(Strip(doc))
    /\ pc' = "chunked"
    /\ UNCHANGED <<root, files, chunks, chunk_tfs, df, idf, call, doc, query,
                   expanded, plain, tokens, scan, todo>>

\* lines 157-159 and 161: no loop for an empty text or one that is no FAQ
ScanSkip ==
    /\ pc = "text"
    /\ (Strip(doc) = <<>> \/ ~LooksLikeFAQ(Strip(doc)))
    /\ packed' = IF Strip(doc) = <<>> THEN <<>> ELSE Pack(Strip(doc))
    /\ pc' = "chunked"
    /\ UNCHANGED <<root, files, chunks, chunk_tfs, df, idf, call, doc, query,
                   expanded, plain, tokens, scan, todo>>

NextScan == ScanBegin \/ ScanLine \/ ScanEnd \/ ScanSkip

SpecScan == InitScan /\ [][NextScan]_vars

\* the query expander alone: _expand_query_for_kb on some query
InitExpand ==
    /\ query \in ExpandQueries
    /\ pc = "query"
    /\ expanded = <<>>
    /\ root = "missing" /\ files = <<>> /\ Idle
    /\ doc = <<>> /\ packed = <<>>
    /\ plain = <<>> /\ tokens = <<>>
    /\ scan = NoScan /\ todo = <<>>

Expand ==
    /\ pc = "query"
    /\ expanded' = _expand_query_for_kb(query)
    /\ pc' = "expanded"
    /\ UNCHANGED <<root, files, chunks, chunk_tfs, df, idf, call, doc, packed, query,
                   plain, tokens, scan, todo>>

NextExpand == Expand

SpecExpand == InitExpand /\ [][NextExpand]_vars

\* the tokenizer alone: _tokenize on some text
InitTokenize ==
    /\ plain \in TokenizeTexts(MaxTextLen)
    /\ pc = "raw"
    /\ tokens = <<>>
    /\ root = "missing" /\ files = <<>> /\ Idle
    /\ doc = <<>> /\ packed = <<>> /\ query = <<>> /\ expanded = <<>>
    /\ scan = NoScan /\ todo = <<>>

Tokenize ==
    /\ pc = "raw"
    /\ tokens' = _tokenize(plain)
    /\ pc' = "tokenized"
    /\ UNCHANGED <<root, files, chunks, chunk_tfs, df, idf, call, doc, packed, query,
                   expanded, plain, scan, todo>>

NextTokenize == Tokenize

SpecTokenize == InitTokenize /\ [][NextTokenize]_vars

-----------------------------------------------------------------------------
(* Properties of search                                                    *)

\* the sum of the values of the function f
RECURSIVE SumFn(_)
SumFn(f) ==
    IF DOMAIN f = {} THEN 0
    ELSE LET x == CHOOSE x \in DOMAIN f : TRUE
         IN  f[x] + SumFn([y \in DOMAIN f \ {x} |-> f[y]])

CountIn(t, seq) == Cardinality({i \in DOMAIN seq : seq[i] = t})

\* the TF-IDF dot product of the query q and the chunk text, over the IDF table
TfIdfScore(q, text) ==
    LET qt == _tokenize(q)
        ct == _tokenize(text)
        w(t) == IF t \in DOMAIN idf THEN idf[t] ELSE 0
    IN  SumFn([t \in Range(qt) |-> (CountIn(t, qt) * w(t)) * (CountIn(t, ct) * w(t))])

IndexOf(chunk) == CHOOSE i \in DOMAIN chunks : chunks[i] = chunk

Done(c) == pc = "ready" /\ call[c].done

\* C1: search returns its results in non-increasing score order, a chunk's score
\* being the sum over the distinct query terms t of (count of t in the query x
\* IDF(t)) x (count of t in the chunk x IDF(t)); for a query with one distinct
\* term, a chunk holding the term more often comes before one holding it less often.
C1_RankedByScore ==
    \A c \in Callers : Done(c) =>
        LET res == call[c].result
            qt == _tokenize(call[c].query)
        IN  /\ \A i \in DOMAIN res :
                res[i].score = TfIdfScore(call[c].query, res[i].chunk.text)
            /\ \A i, j \in DOMAIN res : i < j => res[i].score >= res[j].score
            /\ Cardinality(Range(qt)) = 1 =>
                  \A i, j \in DOMAIN res :
                      CountIn(qt[1], _tokenize(res[i].chunk.text))
                        > CountIn(qt[1], _tokenize(res[j].chunk.text)) => i < j

\* a one-term query answered with two chunks, the later chunk of the index first
C1_Witness ==
    \E c \in Callers :
        /\ Done(c)
        /\ Cardinality(Range(_tokenize(call[c].query))) = 1
        /\ Len(call[c].result) >= 2
        /\ call[c].result[1].score > call[c].result[2].score
        /\ IndexOf(call[c].result[1].chunk) > IndexOf(call[c].result[2].chunk)

\* the chunks of the index that score above 0 for the query q
Positive(q) == {i \in DOMAIN chunks : TfIdfScore(q, chunks[i].text) > 0}

Returned_(res) == {res[i].chunk : i \in DOMAIN res}

\* C2: search returns exactly min(max(1, top_k), M) results, M the number of chunks
\* with a positive score, also for top_k <= 0, and no chunk left out scores
\* strictly higher than a chunk that is returned.
C2_TopK ==
    \A c \in Callers : Done(c) =>
        LET res == call[c].result
            q == call[c].query
        IN  /\ Len(res) = Min(Max(1, call[c].top_k), Cardinality(Positive(q)))
            /\ Cardinality(Returned_(res)) = Len(res)
            /\ \A i \in DOMAIN chunks : chunks[i] \notin Returned_(res) =>
                  \A j \in DOMAIN res : TfIdfScore(q, chunks[i].text) <= res[j].score

\* a call with top_k <= 0 over an index where several chunks score: one result
C2_Witness ==
    \E c \in Callers :
        /\ Done(c)
        /\ call[c].top_k <= 0
        /\ Cardinality(Positive(call[c].query)) >= 2
        /\ Len(call[c].result) = 1

\* the chunks whose Counter holds a term of the tokenized query q
Matching(q) ==
    {i \in DOMAIN chunks : DOMAIN chunk_tfs[i] \cap Range(_tokenize(q)) # {}}

\* C3: with top_k at least the number of chunks, search returns exactly the chunks
\* whose term-frequency vector holds a term of the tokenized query, each with a
\* score above 0; so the result is empty when the query tokenizes to nothing,
\* when the index has no chunks, or when no query term occurs in any chunk.
C3_MatchingChunks ==
    \A c \in Callers : (Done(c) /\ call[c].top_k >= Len(chunks)) =>
        LET res == call[c].result
            q == call[c].query
        IN  /\ Returned_(res) = {chunks[i] : i \in Matching(q)}
            /\ \A j \in DOMAIN res : res[j].score > 0
            /\ (_tokenize(q) = <<>> \/ chunks = <<>> \/ Matching(q) = {}) => res = <<>>

\* two chunks or more, top_k covers them all, and the query's terms occur in some
\* of them but not in all
C3_Witness ==
    \E c \in Callers :
        /\ Done(c)
        /\ call[c].top_k >= Len(chunks)
        /\ Len(chunks) >= 2
        /\ call[c].result # <<>>
        /\ Len(call[c].result) < Len(chunks)

\* C4: after the build, search calls in any number and order leave the chunk list,
\* the term-frequency vectors, the document-frequency table and the IDF table as
\* the build made them, and each call returns what it would return run alone
\* against the freshly built index.
C4_SearchReadOnly ==
    pc = "ready" =>
        LET fresh == _build(root, files).kb IN
        /\ Self = fresh
        /\ \A c \in Callers : call[c].done =>
              call[c].result = search(fresh, call[c].query, call[c].top_k).ret

\* both callers have searched, one of them with a term the index does not know,
\* and both found chunks
C4_Witness ==
    /\ pc = "ready"
    /\ \A c \in Callers : call[c].done /\ call[c].result # <<>>
    /\ \E c \in Callers : \E t \in Range(_tokenize(call[c].query)) : t \notin DOMAIN idf

-----------------------------------------------------------------------------
(* Properties of _expand_query_for_kb                                      *)

HasHan(q) == \E i \in DOMAIN q : q[i] \in Han

\* the values of the hint table's keys that occur in q, in table order
MatchedValues(q) ==
    LET hit == SelectSeq(ZH_EN_KEYWORDS, LAMBDA kv : Contains(q, kv[1]))
    IN  [i \in DOMAIN hit |-> hit[i][2]]

Str_refund == <<"r","e","f","u","n","d">>
Str_policy == <<"p","o","l","i","c","y">>

\* what the expansion of q is when q itself is the text kept
ExpansionOf(q, kept) ==
    IF ~HasHan(q) \/ MatchedValues(q) = <<>> THEN kept
    ELSE kept \o <<SP>> \o Join(<<SP>>, MatchedValues(q))

\* C5 as stated: without an ideograph or without a matching key the input comes
\* back unchanged, and otherwise the original query followed by a space and the
\* space-separated values of the matched keys.
C5_InputKept ==
    pc = "expanded" => expanded = ExpansionOf(query, query)

\* C5 amended: the text kept is the input without its leading and trailing
\* whitespace; it comes back alone when the query holds no ideograph or no key of
\* the table, and otherwise followed by a space and the space-separated values of
\* the matched keys in table order (both "refund" and "policy" for U+9000 U+6B3E
\* U+653F U+7B56); nothing but surrounding whitespace is removed.
C5_TrimmedInputKept ==
    pc = "expanded" =>
        /\ expanded = ExpansionOf(query, Strip(query))
        /\ SubSeq(expanded, 1, Len(Strip(query))) = Strip(query)
        /\ query = <<"U+9000", "U+6B3E", "U+653F", "U+7B56">> =>
              Contains(expanded, Str_refund) /\ Contains(expanded, Str_policy)

\* a query with whitespace around an ideograph key: trimmed, and a hint appended
C5_Witness ==
    /\ pc = "expanded"
    /\ query # Strip(query)
    /\ HasHan(query)
    /\ MatchedValues(query) # <<>>
    /\ Len(expanded) > Len(query)

-----------------------------------------------------------------------------
(* Properties of the built index                                           *)

Indexed == _iter_rag_files(root, files)

\* the texts of the chunks whose source is name, in index order
TextsOf(name) ==
    LET mine == SelectSeq(chunks, LAMBDA ch : ch.source = name)
    IN  [i \in DOMAIN mine |-> mine[i].text]

\* what a readable file holds as text
Content(f) ==
    IF Lower(f.ext) = Str_docx THEN Join(<<NL>>, DocxParagraphs(f.paras)) ELSE f.body

\* the diagnostic of a file that cannot be read: "[<what> failed: <name>] <error>"
IsDiagnostic(text, f) ==
    \E what \in {<<"R","e","a","d">>,
                 <<"D","O","C","X"," ","p","a","r","s","e">>,
                 <<"D","O","C","X"," ","X","M","L"," ","p","a","r","s","e">>} :
        text = <<"[">> \o what \o <<" ","f","a","i","l","e","d",":"," ">>
               \o f.name \o <<"]"," ">> \o ErrMsg

\* chunk i is among the results of a search for term t that asks for every chunk
FoundBy(t, i) ==
    \E j \in DOMAIN search(Self, t, Len(chunks)).ret :
        search(Self, t, Len(chunks)).ret[j].chunk = chunks[i]

\* C6: the build never raises; a missing or non-directory root gives an index
\* without chunks; a file that fails to read or extract contributes its
\* diagnostic string as its only text, and every chunk of every other file is in
\* the index and found by a search for any of its terms.
C6_BuildAbsorbsFailures ==
    /\ pc # "raised"
    /\ pc = "ready" =>
        /\ root # "dir" => chunks = <<>>
        /\ \A k \in DOMAIN Indexed :
              LET f == Indexed[k] IN
              IF f.outcome # "ok"
              THEN Len(TextsOf(f.name)) = 1 /\ IsDiagnostic(TextsOf(f.name)[1], f)
              ELSE TextsOf(f.name) = _chunk_text(Content(f))
        /\ \A i \in DOMAIN chunks :
              /\ \E k \in DOMAIN Indexed : Indexed[k].name = chunks[i].source
              /\ \A t \in Range(_tokenize(chunks[i].text)) : FoundBy(t, i)

\* a directory whose first file fails to read and whose second file is indexed
\* with chunks of its own
C6_Witness ==
    /\ pc = "ready"
    /\ Len(Indexed) = 2
    /\ Indexed[1].outcome # "ok"
    /\ Indexed[2].outcome = "ok"
    /\ Len(TextsOf(Indexed[2].name)) >= 2

\* C9: the IDF table has one entry for each term of any chunk's term-frequency
\* vector and for no other term; a term's document frequency is the number of
\* chunks whose vector holds it, between 1 and N, the number of chunks; its weight
\* ln((N+1)/(df+1))+1 is above 0 and does not grow as df grows.
C9_IdfTable ==
    pc = "ready" =>
        LET N == Len(chunks)
            terms == UNION {DOMAIN chunk_tfs[i] : i \in DOMAIN chunk_tfs}
        IN  /\ DOMAIN idf = terms
            /\ DOMAIN df = terms
            /\ \A t \in terms :
                  /\ df[t] = Cardinality({i \in DOMAIN chunk_tfs : t \in DOMAIN chunk_tfs[i]})
                  /\ 1 <= df[t] /\ df[t] <= N
                  /\ idf[t] = LN1000[N + 1] - LN1000[df[t] + 1] + 1000
                  /\ idf[t] > 0
            /\ \A t, u \in terms : df[t] <= df[u] => idf[t] >= idf[u]

\* an index where one term is in every chunk and another in fewer, weighted higher
C9_Witness ==
    /\ pc = "ready"
    /\ Len(chunks) >= 2
    /\ \E t, u \in DOMAIN idf :
          df[u] = Len(chunks) /\ df[t] < df[u] /\ idf[t] > idf[u]
    /\ \E t \in DOMAIN idf, i \in DOMAIN chunk_tfs :
          t \in DOMAIN chunk_tfs[i] /\ chunk_tfs[i][t] > df[t]

\* C10: a built index, an empty one too, has one term-frequency vector per chunk,
\* the vector at position i holding the term counts of the tokenized text of the
\* chunk at position i.
C10_TfsAligned ==
    /\ Len(chunk_tfs) = Len(chunks)
    /\ pc = "ready" =>
          \A i \in DOMAIN chunks :
              LET toks == _tokenize(chunks[i].text) IN
              /\ DOMAIN chunk_tfs[i] = Range(toks)
              /\ \A t \in Range(toks) : chunk_tfs[i][t] = CountIn(t, toks)

\* an index with a chunk that has no token ahead of a chunk that has some
C10_Witness ==
    /\ pc = "ready"
    /\ \E i, j \in DOMAIN chunks :
          i < j /\ DOMAIN chunk_tfs[i] = {} /\ DOMAIN chunk_tfs[j] # {}

-----------------------------------------------------------------------------
(* Properties of _chunk_text                                               *)

\* C7: every chunk _chunk_text produces is at most chunk_size characters long,
\* also for a single paragraph longer than chunk_size and for a buffer restarted
\* from the overlap window.
C7_ChunksWithinSize ==
    pc = "chunked" => \A i \in DOMAIN packed : Len(packed[i]) <= chunk_size

\* C8: every chunk text _chunk_text returns, in Q/A-aware mode and in generic
\* packing alike, is non-empty after trimming, and blank or empty input yields no
\* chunks.
C8_ChunksNonEmpty ==
    pc = "chunked" =>
        /\ \A i \in DOMAIN packed : Strip(packed[i]) # <<>>
        /\ Strip(doc) = <<>> => packed = <<>>

\* a Q/A document with a blank line in it, cut into two chunks or more
C8_Witness ==
    /\ pc = "chunked"
    /\ LooksLikeFAQ(Strip(doc))
    /\ \E i \in DOMAIN SplitLines(Strip(doc)) : Strip(SplitLines(Strip(doc))[i]) = <<>>
    /\ Len(packed) >= 2
    /\ packed = QAChunks(Strip(doc))

-----------------------------------------------------------------------------
(* Properties of _tokenize                                                 *)

\* the positions of f where a run of word characters or of ideographs begins
RunStarts(f) ==
    {a \in DOMAIN f :
        /\ CharClass(f[a]) # "sep"
        /\ (a = 1 \/ CharClass(f[a - 1]) # CharClass(f[a]))}

\* the position where the run beginning at a ends
RunEnd(f, a) ==
    CHOOSE b \in a..Len(f) :
        /\ \A k \in a..b : CharClass(f[k]) = CharClass(f[a])
        /\ (b = Len(f) \/ CharClass(f[b + 1]) # CharClass(f[a]))

\* the i-th run start from the left
NthStart(f, i) ==
    CHOOSE a \in RunStarts(f) : Cardinality({x \in RunStarts(f) : x <= a}) = i

\* C11: _tokenize case-folds the text and returns, from left to right, exactly
\* the maximal runs of [a-zA-Z0-9_] and the maximal runs of ideographs of
\* U+4E00..U+9FFF of the folded text (two adjacent ideographs are one token);
\* every other character only separates tokens, and an empty or
\* whitespace-only text gives the empty sequence.
C11_TokenizeRuns ==
    pc = "tokenized" =>
        LET f == Lower(plain) IN
        /\ Len(tokens) = Cardinality(RunStarts(f))
        /\ \A i \in DOMAIN tokens :
              tokens[i] = Slice(f, NthStart(f, i), RunEnd(f, NthStart(f, i)))
        /\ \A i \in DOMAIN tokens : \A k \in DOMAIN tokens[i] :
              tokens[i][k] \in AsciiWord \cup Han
        /\ (\A i \in DOMAIN plain : plain[i] \in Whitespace) => tokens = <<>>

\* an upper-case letter, a separator and two adjacent ideographs: two tokens
C11_Witness ==
    /\ pc = "tokenized"
    /\ plain = <<"R", "#", "U+9000", "U+6B3E">>
    /\ tokens = << <<"r">>, <<"U+9000", "U+6B3E">> >>

-----------------------------------------------------------------------------
(* Properties of _chunk_text on spelt-out markers                          *)

\* the line l begins with the word w in any letter case, then optional white
\* space, then a colon
WordMarked(l, w) ==
    /\ Len(l) > Len(w)
    /\ Lower(SubSeq(l, 1, Len(w))) = w
    /\ LET k == LStripFrom(l, Len(w) + 1) IN k <= Len(l) /\ l[k] \in Colons

LetterMarked(l) == WordMarked(l, <<"q">>) \/ WordMarked(l, <<"a">>)

\* the lines of d marked "Question:"
QuestionLines(d) ==
    {i \in DOMAIN SplitLines(d) : WordMarked(SplitLines(d)[i], Str_question)}

\* d marks its questions "Question:" and has no line marked "Q:" or "A:"
SpeltOut(d) ==
    /\ QuestionLines(d) # {}
    /\ \A i \in DOMAIN SplitLines(d) : ~LetterMarked(Strip(SplitLines(d)[i]))

\* the line l with a spelt-out marker cut down to its first letter
AbbrevLine(l) ==
    IF WordMarked(l, Str_question)
    THEN <<l[1]>> \o SubSeq(l, Len(Str_question) + 1, Len(l))
    ELSE IF WordMarked(l, Str_answer)
    THEN <<l[1]>> \o SubSeq(l, Len(Str_answer) + 1, Len(l))
    ELSE l

\* the text t written with "Q:" and "A:" markers
Abbrev(t) ==
    Join(<<NL>>, [i \in DOMAIN SplitLines(t) |-> AbbrevLine(SplitLines(t)[i])])

\* the places of t where a run of two line feeds or more begins
ParaBreaks(t) ==
    {i \in DOMAIN t :
        /\ t[i] = NL
        /\ i < Len(t) /\ t[i + 1] = NL
        /\ (i = 1 \/ t[i - 1] # NL)}

\* C12 as stated: a document that marks its question lines "Question:" and its
\* answer lines "Answer:" is cut into the chunks the same document written with
\* "Q:" and "A:" is cut into.
C12_QuestionWordAsQ ==
    (pc = "chunked" /\ SpeltOut(doc)) =>
        [i \in DOMAIN packed |-> Abbrev(packed[i])] = _chunk_text(Abbrev(doc))

\* C12 as amended: a document that marks its question lines "Question:" and has
\* no line beginning with Q or A, optional white space and a colon is not cut
\* by the Q/A-aware pass but packed by paragraphs: no more chunks than
\* paragraphs, and one chunk, the whole trimmed text, when it has no two line
\* feeds in a row, however many question lines it has.
C12_QuestionWordPacked ==
    (pc = "chunked" /\ SpeltOut(doc)) =>
        /\ Len(packed) <= 1 + Cardinality(ParaBreaks(Strip(doc)))
        /\ ParaBreaks(Strip(doc)) = {} => packed = <<Strip(doc)>>
        /\ packed = Pack(Strip(doc))

\* two question lines and an answer line in one paragraph, returned as one chunk
C12_Witness ==
    /\ pc = "chunked"
    /\ SpeltOut(doc)
    /\ Cardinality(QuestionLines(doc)) = 2
    /\ \E i \in DOMAIN SplitLines(doc) : WordMarked(SplitLines(doc)[i], Str_answer)
    /\ ParaBreaks(Strip(doc)) = {}
    /\ Len(packed) = 1

-----------------------------------------------------------------------------
(* Properties of the Q/A-aware pass                                        *)

IsQ(l) == WordMarked(l, <<"q">>)
IsA(l) == WordMarked(l, <<"a">>)

\* the trimmed non-blank lines of the trimmed text t, in order
RECURSIVE TrimmedOf(_)
TrimmedOf(ls) ==
    IF ls = <<>> THEN <<>>
    ELSE (IF Strip(Head(ls)) = <<>> THEN <<>> ELSE <<Strip(Head(ls))>>)
         \o TrimmedOf(Tail(ls))

NonBlank(t) == TrimmedOf(SplitLines(Strip(t)))

QPos(L) == {i \in DOMAIN L : IsQ(L[i])}
MarkedPos(L) == {i \in DOMAIN L : IsQ(L[i]) \/ IsA(L[i])}

\* the first marked line of L
FirstMarked(L) == CHOOSE i \in MarkedPos(L) : \A j \in MarkedPos(L) : i <= j

\* the first question-or-answer line of L is a question line
QuestionFirst(L) == MarkedPos(L) # {} /\ IsQ(L[FirstMarked(L)])

\* the n-th question line of L, and the line before the next one
NthQ(L, n) == CHOOSE a \in QPos(L) : Cardinality({x \in QPos(L) : x <= a}) = n
LastOf(L, a) ==
    IF \E b \in QPos(L) : b > a
    THEN (CHOOSE b \in QPos(L) : b > a /\ \A x \in QPos(L) : x > a => b <= x) - 1
    ELSE Len(L)

\* the heading pending at the first question line: the line before it, if any
PendingHeading(L) ==
    IF FirstMarked(L) > 1 THEN <<L[FirstMarked(L) - 1]>> ELSE <<>>

\* C13: in the Q/A-aware pass over a text whose first question-or-answer line is
\* a question line there are as many chunks as question lines, and each chunk
\* is, in order, the pending heading (when there is one), the question line and
\* every non-blank line after it up to the next question line; a heading line
\* and two Q:/A: pairs give two chunks, each the heading, the question, the
\* answer.
C13_ChunkPerQuestion ==
    (pc = "chunked" /\ QuestionFirst(NonBlank(doc))) =>
        LET L == NonBlank(doc) IN
        /\ Len(packed) = Cardinality(QPos(L))
        /\ \A n \in DOMAIN packed :
              packed[n] = Join(<<NL>>, PendingHeading(L)
                                        \o SubSeq(L, NthQ(L, n), LastOf(L, NthQ(L, n))))

\* one heading line and two question/answer pairs: two chunks under the heading
C13_Witness ==
    /\ pc = "chunked"
    /\ doc = Join(<<NL>>, << <<"H">>, <<"Q",":","a">>, <<"A",":","b">>,
                            <<"q",SP,FWCOLON,"c">>, <<"A",":","b">> >>)
    /\ packed = << Join(<<NL>>, << <<"H">>, <<"Q",":","a">>, <<"A",":","b">> >>),
                   Join(<<NL>>, << <<"H">>, <<"q",SP,FWCOLON,"c">>, <<"A",":","b">> >>) >>

-----------------------------------------------------------------------------
(* Properties of generic packing                                           *)

\* the i-th smallest member of the set S of numbers
NthOf(S, i) == CHOOSE x \in S : Cardinality({y \in S : y <= x}) = i

\* what the chunk after the closed chunk prev begins with, before its first
\* paragraph
PrefixAfter(prev) ==
    IF chunk_overlap > 0 /\ Len(prev) > chunk_overlap
    THEN SubSeq(prev, Len(prev) - chunk_overlap + 1, Len(prev)) \o <<NL, NL>>
    ELSE <<>>

\* the chunks cs are the paragraphs P cut into consecutive groups: a chunk is
\* closed where the next paragraph and the separator would take it past
\* chunk_size, and the chunk after a closed one begins with the closed one's
\* last chunk_overlap characters if the closed one is longer than that, and with
\* the next paragraph alone otherwise
OverlapChained(P, cs) ==
    \E C \in SUBSET (1..(Len(P) - 1)) :
        LET B == C \cup {0, Len(P)} IN
        /\ Len(cs) = Cardinality(C) + 1
        /\ \A i \in DOMAIN cs :
              cs[i] = (IF i = 1 THEN <<>> ELSE PrefixAfter(cs[i - 1]))
                      \o Join(<<NL, NL>>, SubSeq(P, NthOf(B, i) + 1, NthOf(B, i + 1)))
        /\ \A i \in 1..(Len(cs) - 1) :
              Len(cs[i]) + 2 + Len(P[NthOf(B, i + 1) + 1]) > chunk_size

\* the text t has no line marked as a question or an answer
Plain(t) == MarkedPos(NonBlank(t)) = {}

\* C14 as stated: in generic packing a chunk closed because the next paragraph
\* would not fit is followed by a chunk that begins with its last chunk_overlap
\* characters if it is longer than that and with the next paragraph alone
\* otherwise, and a text of two paragraphs or more that is longer than
\* chunk_size gives two chunks or more.
C14_OverlapByTextLength ==
    (pc = "chunked" /\ Plain(doc) /\ Strip(doc) # <<>>) =>
        LET P == Parts(Strip(doc)) IN
        /\ OverlapChained(P, packed)
        /\ (Len(P) >= 2 /\ Len(Strip(doc)) > chunk_size) => Len(packed) >= 2

\* C14 as amended: the same, with the length that forces a second chunk being
\* that of the trimmed paragraphs joined by the two-character separator.
C14_OverlapChained ==
    (pc = "chunked" /\ Plain(doc) /\ Strip(doc) # <<>>) =>
        LET P == Parts(Strip(doc)) IN
        /\ OverlapChained(P, packed)
        /\ (Len(P) >= 2 /\ Len(Join(<<NL, NL>>, P)) > chunk_size) => Len(packed) >= 2

\* three paragraphs, the first chunk longer than the overlap and closed, the
\* second beginning with its last chunk_overlap characters
C14_Witness ==
    /\ pc = "chunked"
    /\ Plain(doc)
    /\ Len(Parts(Strip(doc))) = 3
    /\ Len(packed) >= 2
    /\ Len(packed[1]) > chunk_overlap
    /\ SubSeq(packed[2], 1, chunk_overlap)
         = SubSeq(packed[1], Len(packed[1]) - chunk_overlap + 1, Len(packed[1]))

-----------------------------------------------------------------------------
(* Properties of the loop of the Q/A-aware pass                            *)

\* the loop takes its next line in this step
Consumes == pc = "scan" /\ todo # <<>> /\ todo' = Tail(todo)

\* C15: in the Q/A-aware pass, taking a question or an answer line leaves a
\* chunk open, and from then on a chunk is open at every line: the pending
\* heading never changes again, a later line that is no question and no answer
\* (a new section title too) joins the open chunk, and a later question line
\* closes the open chunk and opens one that begins with that same heading.
C15_HeadingSetBeforeFirstMarker ==
    [][Consumes =>
        LET s == Strip(Head(todo)) IN
        /\ (IsQ(s) \/ IsA(s)) => scan'.cur # <<>>
        /\ scan.cur # <<>> =>
              /\ scan'.cur # <<>>
              /\ scan'.current_heading = scan.current_heading
              /\ (s # <<>> /\ ~IsQ(s) /\ ~IsA(s)) =>
                    /\ scan'.cur = Append(scan.cur, s)
                    /\ scan'.chunks = scan.chunks
              /\ IsQ(s) =>
                    /\ scan'.chunks = Append(scan.chunks, Join(<<NL>>, scan.cur))
                    /\ scan'.cur = (IF scan.current_heading # <<>>
                                    THEN <<scan.current_heading>> ELSE <<>>) \o <<s>>
    ]_vars

\* a heading, a question, a later title joined to the open chunk, and a second
\* question whose chunk begins with the first heading
C15_Witness ==
    /\ pc = "scan"
    /\ scan.current_heading = <<"H">>
    /\ scan.chunks = << Join(<<NL>>, << <<"H">>, <<"Q",":","a">>, <<"T">> >>) >>
    /\ scan.cur = << <<"H">>, <<"q",SP,FWCOLON,"c">> >>

\* the loop followed pass by pass returns what _chunk_text returns
ScanAgrees == pc = "chunked" => packed = _chunk_text(doc)

=============================================================================
